---- MODULE Spec2Model ----
(***************************************************************************)
(* Authenticator validation stage of authentik                             *)
(* (authentik/stages/authenticator_validate/stage.py).                     *)
(*                                                                         *)
(* The state is the stage configuration, the devices of the user, the flow *)
(* plan (context and inserted stages), the Django session slice the stage  *)
(* owns, and the result of the last request.  One action per HTTP handler  *)
(* (get, post); NewAttempt and Rebind are the collaborators (flow planner, *)
(* administrator) that act between requests.                               *)
(***************************************************************************)
EXTENDS Integers, Sequences, FiniteSets, TLC

VARIABLES
    stage,          \* AuthenticatorValidateStage: the stage's configuration
    designation,    \* designation of the enclosing flow
    user_devices,   \* devices_for_user(pending user), in enumeration order
    request_user,   \* request.user of the HTTP session
    context,        \* executor.plan.context: pending_user, method, method_args
    session,        \* request.session, the three keys of this stage
    plan_inserted,  \* stages passed to executor.plan.insert_stage in this attempt
    request,        \* the last request: method, response payload, verdict
    outcome,        \* what the last request returned to the executor
    rendered,       \* the challenge rendered by the last request
    events          \* configuration-error events saved by the last request

vars == <<stage, designation, user_devices, request_user, context,
          session, plan_inserted, request, outcome, rendered, events>>

(***************************************************************************)
(* Bounds of the model                                                     *)
(***************************************************************************)
\* longest device list of a user in the entry specification
MaxDevices == 3
\* longest device list of a user in the session specification
MaxSessionDevices == 1
\* most fields one response payload carries
MaxFields == 2

(***************************************************************************)
(* Values                                                                  *)
(***************************************************************************)
None == "None"
Anonymous == "anon"
Users == {"u1", "u2"}

\* DeviceClasses
DeviceClasses == {"static", "totp", "webauthn", "duo", "sms"}
\* FlowDesignation
AUTHENTICATION == "authentication"
Designations == {AUTHENTICATION, "authorization"}
\* NotConfiguredAction; "other" is a value outside the three choices
SKIP == "skip"
DENY == "deny"
CONFIGURE == "configure"
NotConfiguredActions == {SKIP, DENY, CONFIGURE, "other"}

\* the clock, in seconds since the epoch: now()
Now == 90
\* TOTPDevice.step
TotpStep == 30
\* device_uid of the userless challenge
UserlessUid == 0 - 1

SESSION_STAGES == "stages"
SESSION_SELECTED_STAGE == "selected_stage"
SESSION_DEVICE_CHALLENGES == "device_challenges"

StagePks == {"s1", "s2", "s3"}

(***************************************************************************)
(* Devices                                                                 *)
(***************************************************************************)
\* A device as the stage reads it: its Python class, whether it has a last_t
\* attribute, whether that is a datetime or a TOTP step counter, and its step.
DeviceKind(name, has, isdt, t) ==
    [class_name |-> name, has_last_t |-> has, is_datetime |-> isdt,
     last_t |-> t, step |-> TotpStep]

DeviceKinds ==
    { DeviceKind("StaticDevice", FALSE, FALSE, 0),
      DeviceKind("DuoDevice", FALSE, FALSE, 0),
      DeviceKind("HOTPDevice", TRUE, TRUE, Now) }
    \cup { DeviceKind("TOTPDevice", TRUE, FALSE, t) : t \in {0, 3} }
    \cup { DeviceKind("WebAuthnDevice", TRUE, TRUE, t) : t \in {10, 30} }
    \cup { DeviceKind("SMSDevice", TRUE, TRUE, t) : t \in {10} }

\* the kinds the session specification enrols
SessionDeviceKinds ==
    { DeviceKind("TOTPDevice", TRUE, FALSE, 0),
      DeviceKind("SMSDevice", TRUE, TRUE, 10),
      DeviceKind("WebAuthnDevice", TRUE, TRUE, 10) }

\* device lists of at most n devices; the primary key is the position
DeviceLists(kinds, n) ==
    UNION { { [i \in 1..k |-> [class_name |-> f[i].class_name,
                               has_last_t |-> f[i].has_last_t,
                               is_datetime |-> f[i].is_datetime,
                               last_t |-> f[i].last_t,
                               step |-> f[i].step,
                               pk |-> i]] : f \in [1..k -> kinds] }
            : k \in 0..n }

\* device.__class__.__name__.lower().replace("device", "")
device_class_of(device) ==
    CASE device.class_name = "StaticDevice" -> "static"
      [] device.class_name = "TOTPDevice" -> "totp"
      [] device.class_name = "WebAuthnDevice" -> "webauthn"
      [] device.class_name = "DuoDevice" -> "duo"
      [] device.class_name = "SMSDevice" -> "sms"
      [] device.class_name = "HOTPDevice" -> "hotp"

\* get_device_last_usage: seconds since the epoch
get_device_last_usage(device) ==
    IF ~device.has_last_t THEN 0
    ELSE IF device.is_datetime THEN device.last_t
    ELSE device.last_t * device.step

\* a threshold check that lets a zero threshold through
ThresholdEnabled_ZeroIncluded(threshold) == threshold >= 0

\* threshold.total_seconds() > 0
ThresholdEnabled(threshold) == threshold > 0

\* _now - get_device_last_usage(device) <= threshold
WithinThreshold(device, threshold) ==
    Now - get_device_last_usage(device) <= threshold

DeviceChallenge(class, uid) == [device_class |-> class, device_uid |-> uid]

\* an enumeration that forgets the classes it has seen
AlreadySeen_Never(class, seen_classes) == FALSE

\* an enumeration that gives every WebAuthn device its own challenge
AlreadySeen_ExceptWebAuthn(class, seen_classes) ==
    class # "webauthn" /\ class \in seen_classes

\* "if device_class in seen_classes: continue"
AlreadySeen(class, seen_classes) == class \in seen_classes

\* an allow-list that admits every class
ClassAllowed_Always(device_class, cfg) == TRUE

\* "device_class not in stage.device_classes", negated
ClassAllowed(device_class, cfg) == device_class \in cfg.device_classes

\* the loop of get_device_challenges from device i on
RECURSIVE device_loop(_, _, _, _, _)
device_loop(devices, i, challenges, seen_classes, cfg) ==
    IF i > Len(devices) THEN [skip |-> FALSE, challenges |-> challenges]
    ELSE LET device == devices[i]
             device_class == device_class_of(device)
         IN  IF ~ClassAllowed(device_class, cfg)
             THEN device_loop(devices, i + 1, challenges, seen_classes, cfg)
             ELSE IF AlreadySeen(device_class, seen_classes)
             THEN device_loop(devices, i + 1, challenges, seen_classes, cfg)
             ELSE IF ThresholdEnabled(cfg.last_auth_threshold)
                     /\ WithinThreshold(device, cfg.last_auth_threshold)
             THEN [skip |-> TRUE, challenges |-> challenges]
             ELSE device_loop(devices, i + 1,
                              Append(challenges,
                                     DeviceChallenge(device_class, device.pk)),
                              seen_classes \cup {device_class}, cfg)

\* get_device_challenges: skip is the FlowSkipStageException
get_device_challenges(devices, cfg) == device_loop(devices, 1, <<>>, {}, cfg)

\* a userless challenge that carries a device primary key, not the sentinel
userless_challenge_with_pk == << [device_class |-> "webauthn", device_uid |-> 1] >>

\* get_userless_webauthn_challenge
get_userless_webauthn_challenge == << DeviceChallenge("webauthn", UserlessUid) >>

(***************************************************************************)
(* Session and rendering                                                   *)
(***************************************************************************)
NoStage == [kind |-> "none", pk |-> None]
\* a primary key string, as validate_selected_stage stores it
StagePk(pk) == [kind |-> "pk", pk |-> pk]
\* a Stage instance, as prepare_stages stores it
StageObject(pk) == [kind |-> "obj", pk |-> pk]

EmptySession ==
    [keys |-> {}, device_challenges |-> <<>>, stages |-> {},
     selected_stage |-> NoStage]

\* request.session[SESSION_DEVICE_CHALLENGES] = challenges
set_device_challenges(sess, challenges) ==
    [sess EXCEPT !.keys = @ \cup {SESSION_DEVICE_CHALLENGES},
                 !.device_challenges = challenges]

\* request.session[SESSION_STAGES] = stages
set_stages(sess, stages) ==
    [sess EXCEPT !.keys = @ \cup {SESSION_STAGES}, !.stages = stages]

\* request.session[SESSION_SELECTED_STAGE] = value
set_selected_stage(sess, value) ==
    [sess EXCEPT !.keys = @ \cup {SESSION_SELECTED_STAGE},
                 !.selected_stage = value]

NotRendered ==
    [shown |-> FALSE, device_challenges |-> <<>>, configuration_stages |-> {}]

\* get_challenge: session.get(key, []) for both keys
get_challenge(sess) ==
    [shown |-> TRUE,
     device_challenges |->
        IF SESSION_DEVICE_CHALLENGES \in sess.keys
        THEN sess.device_challenges ELSE <<>>,
     configuration_stages |->
        IF SESSION_STAGES \in sess.keys THEN sess.stages ELSE {}]

\* what a handler hands back: the session it leaves, the executor call it
\* ends in, the stages it inserted, the events it saved
Result(sess, out, inserted, ev) ==
    [session |-> sess, outcome |-> out, inserted |-> inserted, events |-> ev]

\* StageView.get_pending_user: the plan's pending user, else request.user
get_pending_user(ctx, ruser) ==
    IF ctx.pending_user # None THEN ctx.pending_user ELSE ruser

\* ChallengeStageView.get: render get_challenge()
challenge_stage_get(sess) == Result(sess, "challenge", <<>>, 0)

(***************************************************************************)
(* Stage entry                                                             *)
(***************************************************************************)
\* a prepare_stages that offers a single configuration stage for selection
\* as it offers several
prepare_stages_always_offers(sess, cfg) ==
    IF cfg.configuration_stages = {}
    THEN Result(sess, "stage_invalid", <<>>, 1)
    ELSE challenge_stage_get(set_stages(sess, cfg.configuration_stages))

\* a prepare_stages that fails on a missing configuration stage without
\* saving the event
prepare_stages_no_event(sess, cfg) ==
    IF cfg.configuration_stages = {}
    THEN Result(sess, "stage_invalid", <<>>, 0)
    ELSE IF Cardinality(cfg.configuration_stages) = 1
    THEN LET next_stage == CHOOSE s \in cfg.configuration_stages : TRUE
         IN  Result(set_selected_stage(sess, StageObject(next_stage)),
                    "stage_ok", <<next_stage>>, 0)
    ELSE challenge_stage_get(set_stages(sess, cfg.configuration_stages))

\* prepare_stages
prepare_stages(sess, cfg) ==
    IF cfg.configuration_stages = {}
    THEN Result(sess, "stage_invalid", <<>>, 1)
    ELSE IF Cardinality(cfg.configuration_stages) = 1
    THEN LET next_stage == CHOOSE s \in cfg.configuration_stages : TRUE
         IN  Result(set_selected_stage(sess, StageObject(next_stage)),
                    "stage_ok", <<next_stage>>, 0)
    ELSE challenge_stage_get(set_stages(sess, cfg.configuration_stages))

\* a get that does not act on deny and renders the empty challenge
get_with_challenges_no_deny(sess, challenges, cfg) ==
    LET sess1 == set_device_challenges(sess, challenges)
    IN  IF Len(challenges) < 1 /\ cfg.not_configured_action = SKIP
        THEN Result(sess1, "stage_ok", <<>>, 0)
        ELSE IF Len(challenges) < 1 /\ cfg.not_configured_action = CONFIGURE
        THEN prepare_stages(sess1, cfg)
        ELSE challenge_stage_get(sess1)

\* get, from "self.request.session[SESSION_DEVICE_CHALLENGES] = challenges" on
get_with_challenges(sess, challenges, cfg) ==
    LET sess1 == set_device_challenges(sess, challenges)
    IN  IF Len(challenges) < 1 /\ cfg.not_configured_action = SKIP
        THEN Result(sess1, "stage_ok", <<>>, 0)
        ELSE IF Len(challenges) < 1 /\ cfg.not_configured_action = DENY
        THEN Result(sess1, "stage_invalid", <<>>, 0)
        ELSE IF Len(challenges) < 1 /\ cfg.not_configured_action = CONFIGURE
        THEN prepare_stages(sess1, cfg)
        ELSE challenge_stage_get(sess1)

\* "if user and not user.is_anonymous"
KnownUser(user) == user # None /\ user # Anonymous

\* AuthenticatorValidateStageView.get
get_result(sess, user, devices, cfg, desig) ==
    IF KnownUser(user)
    THEN LET r == get_device_challenges(devices, cfg)
         IN  IF r.skip THEN Result(sess, "stage_ok", <<>>, 0)
             ELSE get_with_challenges(sess, r.challenges, cfg)
    ELSE IF desig # AUTHENTICATION THEN Result(sess, "stage_ok", <<>>, 0)
    ELSE IF "webauthn" \in cfg.device_classes
    THEN get_with_challenges(sess, get_userless_webauthn_challenge, cfg)
    ELSE Result(sess, "stage_ok", <<>>, 0)

NoResponse ==
    [fields |-> {}, selected_challenge |-> DeviceChallenge(None, 0),
     selected_stage |-> None, code |-> None, webauthn |-> None, duo |-> None]

\* a request as the properties read it: the payload, the pending user, what
\* the SMS device lookup found, the verdict, the device select_challenge got
NoRequest ==
    [method |-> "none", response |-> NoResponse, verdict |-> "none",
     selected_device |-> 0, user |-> None, sms_exists |-> FALSE]

\* the requests the executor still routes to this stage in this attempt
Active == {"none", "challenge", "rejected"}

get ==
    /\ outcome \in Active
    /\ LET user == get_pending_user(context, request_user)
           r == get_result(session, user, user_devices, stage, designation)
       IN  /\ session' = r.session
           /\ outcome' = r.outcome
           /\ plan_inserted' = plan_inserted \o r.inserted
           /\ events' = r.events
           /\ rendered' = IF r.outcome = "challenge"
                          THEN get_challenge(r.session) ELSE NotRendered
           /\ request' = [NoRequest EXCEPT !.method = "GET", !.user = user]
    /\ UNCHANGED <<stage, designation, user_devices, request_user, context>>

(***************************************************************************)
(* Response validation (AuthenticatorValidationChallengeResponse)          *)
(***************************************************************************)
\* The serializer runs the field validators in declaration order and collects
\* their ValidationErrors; any other exception leaves is_valid at once.
\* acc: the session, the fields in error, whether an exception escaped, and
\* the SMS device select_challenge was called with (0: none).
StartValidation(sess) ==
    [session |-> sess, errors |-> {}, fault |-> FALSE, selected_device |-> 0]

FieldError(acc, field) == [acc EXCEPT !.errors = @ \cup {field}]
Fault(acc) == [acc EXCEPT !.fault = TRUE]

\* a gate that asks only whether any challenge was issued
AnyIssued_AnyClass(device_challenges, classes) == Len(device_challenges) > 0

\* "any(x["device_class"] in classes for x in device_challenges)"
AnyIssued(device_challenges, classes) ==
    \E i \in 1..Len(device_challenges) :
        device_challenges[i].device_class \in classes

\* _challenge_allowed: "fault" is the TypeError of iterating None
challenge_allowed(sess, classes) ==
    IF SESSION_DEVICE_CHALLENGES \notin sess.keys THEN "fault"
    ELSE IF ~AnyIssued(sess.device_challenges, classes) THEN "error"
    ELSE "ok"

\* validate_code, validate_webauthn, validate_duo: the class gate, then the
\* verifier; proof_ok is the verifier's verdict on the submitted value.  The
\* code and Duo verifiers look the device up among the devices of the user
\* they are given, and find none for an anonymous user.
validate_factor(acc, field, classes, proof_ok) ==
    LET gate == challenge_allowed(acc.session, classes)
    IN  IF gate = "fault" THEN Fault(acc)
        ELSE IF gate = "error" THEN FieldError(acc, field)
        ELSE IF ~proof_ok THEN FieldError(acc, field)
        ELSE acc

validate_code(acc, code, user) ==
    validate_factor(acc, "code", {"totp", "static", "sms"},
                    code = "good" /\ KnownUser(user))

validate_webauthn(acc, webauthn) ==
    validate_factor(acc, "webauthn", {"webauthn"}, webauthn \in Users)

validate_duo(acc, duo, user) ==
    validate_factor(acc, "duo", {"duo"}, duo = "good" /\ KnownUser(user))

\* a validate_selected_challenge that trusts the pair the client names
validate_selected_challenge_unchecked(acc, challenge, sms_exists) ==
    IF SESSION_DEVICE_CHALLENGES \notin acc.session.keys THEN Fault(acc)
    ELSE IF challenge.device_class # "sms" THEN acc
    ELSE IF ~sms_exists THEN FieldError(acc, "selected_challenge")
    ELSE [acc EXCEPT !.selected_device = challenge.device_uid]

\* validate_selected_challenge; sms_exists: SMSDevice.objects.filter(pk=...).exists()
validate_selected_challenge(acc, challenge, sms_exists) ==
    IF SESSION_DEVICE_CHALLENGES \notin acc.session.keys THEN Fault(acc)
    ELSE LET issued == acc.session.device_challenges
             allowed == \E i \in 1..Len(issued) :
                           /\ issued[i].device_class = challenge.device_class
                           /\ issued[i].device_uid = challenge.device_uid
         IN  IF ~allowed THEN FieldError(acc, "selected_challenge")
             ELSE IF challenge.device_class # "sms" THEN acc
             ELSE IF ~sms_exists THEN FieldError(acc, "selected_challenge")
             ELSE [acc EXCEPT !.selected_device = challenge.device_uid]

\* "any(str(stage.pk) == stage_pk for stage in stages)"
StageKnown(sess, stage_pk) ==
    SESSION_STAGES \in sess.keys /\ stage_pk \in sess.stages

\* validate_selected_stage
validate_selected_stage(acc, stage_pk) ==
    IF ~StageKnown(acc.session, stage_pk)
    THEN FieldError(acc, "selected_stage")
    ELSE [acc EXCEPT !.session = set_selected_stage(@, StagePk(stage_pk))]

\* a validate that takes any set of fields
validate_any(attrs) == TRUE

\* validate: "Empty response"
validate(attrs) ==
    ~("code" \notin attrs /\ "webauthn" \notin attrs /\ "duo" \notin attrs)

\* one field of the serializer: skipped when absent or after an exception
Field(acc, resp, field, validated) ==
    IF acc.fault \/ field \notin resp.fields THEN acc ELSE validated

\* is_valid: the verdict, with the side effects of the field validators
is_valid(sess, resp, sms_exists, user) ==
    LET a0 == StartValidation(sess)
        a1 == Field(a0, resp, "selected_challenge",
                    validate_selected_challenge(a0, resp.selected_challenge,
                                                sms_exists))
        a2 == Field(a1, resp, "selected_stage",
                    validate_selected_stage(a1, resp.selected_stage))
        a3 == Field(a2, resp, "code", validate_code(a2, resp.code, user))
        a4 == Field(a3, resp, "webauthn", validate_webauthn(a3, resp.webauthn))
        a5 == Field(a4, resp, "duo", validate_duo(a4, resp.duo, user))
    IN  [session |-> a5.session,
         selected_device |-> a5.selected_device,
         verdict |-> IF a5.fault THEN "fault"
                     ELSE IF a5.errors # {} THEN "invalid"
                     ELSE IF ~validate(resp.fields) THEN "invalid"
                     ELSE "valid"]

(***************************************************************************)
(* Response handling                                                       *)
(***************************************************************************)
NoMethod == [pending_user |-> None, method |-> None, method_args |-> None]

\* challenge_valid: the context it leaves (it always ends in stage_ok)
challenge_valid(ctx, resp) ==
    IF ctx.pending_user # None THEN ctx
    ELSE IF "webauthn" \notin resp.fields THEN ctx
    ELSE [pending_user |-> resp.webauthn, method |-> "auth_webauthn_pwl",
          method_args |-> resp.webauthn]

\* ChallengeStageView.post: challenge_valid or challenge_invalid
challenge_stage_post(verdict) ==
    IF verdict = "valid" THEN "stage_ok" ELSE "rejected"

\* "SESSION_SELECTED_STAGE in self.request.session and ... == CONFIGURE"
RunSelectedStage(sess, cfg) ==
    SESSION_SELECTED_STAGE \in sess.keys
    /\ cfg.not_configured_action = CONFIGURE

\* Stage.objects.get_subclass(pk=stage_pk): a primary key string finds its
\* stage; the Stage instance prepare_stages stored is no primary key, and the
\* lookup raises
get_subclass_finds(stage_pk) == stage_pk.kind = "pk"

\* AuthenticatorValidateStageView.post after is_valid
post_result(v, cfg) ==
    IF v.verdict = "fault" THEN Result(v.session, "fault", <<>>, 0)
    ELSE IF RunSelectedStage(v.session, cfg)
    THEN IF get_subclass_finds(v.session.selected_stage)
         THEN Result(v.session, "stage_ok", <<v.session.selected_stage.pk>>, 0)
         ELSE Result(v.session, "fault", <<>>, 0)
    ELSE Result(v.session, challenge_stage_post(v.verdict), <<>>, 0)

\* response payloads: at most MaxFields of the five fields
FieldNames == {"selected_challenge", "selected_stage", "code", "webauthn", "duo"}

SelectedChallenges ==
    { DeviceChallenge(c, u) : c \in {"sms", "totp"}, u \in 1..MaxSessionDevices }

Present(fields, field, values) ==
    IF field \in fields THEN values ELSE {NoResponse[field]}

\* the stages a response selects: one of the first binding, one bound later
SelectedStages == {"s1", "s3"}

\* code and duo carry the verifier's answer; webauthn carries the owner of the
\* device the assertion resolves to, or fails
Responses ==
    UNION { [fields : {fs},
             selected_challenge :
                Present(fs, "selected_challenge", SelectedChallenges),
             selected_stage : Present(fs, "selected_stage", SelectedStages),
             code : Present(fs, "code", {"good", "bad"}),
             webauthn : Present(fs, "webauthn", {"bad", "u2"}),
             duo : Present(fs, "duo", {"good"})]
            : fs \in { f \in SUBSET FieldNames : Cardinality(f) <= MaxFields } }

\* the outcomes of the device lookup that a response can meet
SmsLookups(resp) ==
    IF "selected_challenge" \in resp.fields
       /\ resp.selected_challenge.device_class = "sms"
    THEN BOOLEAN ELSE {TRUE}

\* the states in which the client holds a challenge to answer, or answers
\* without having asked for one; a rejected response is answered again after
\* the challenge was rendered again (get)
Answerable == {"none", "challenge"}

post ==
    /\ outcome \in Answerable
    /\ \E resp \in Responses :
       \E sms_exists \in SmsLookups(resp) :
          LET v == is_valid(session, resp, sms_exists,
                            get_pending_user(context, request_user))
              r == post_result(v, stage)
          IN  /\ session' = r.session
              /\ outcome' = r.outcome
              /\ plan_inserted' = plan_inserted \o r.inserted
              /\ events' = r.events
              /\ context' = IF v.verdict = "valid"
                            THEN challenge_valid(context, resp)
                            ELSE context
              /\ rendered' = IF r.outcome = "rejected"
                             THEN get_challenge(r.session) ELSE NotRendered
              /\ request' = [method |-> "POST", response |-> resp,
                             verdict |-> v.verdict,
                             selected_device |-> v.selected_device,
                             user |-> get_pending_user(context, request_user),
                             sms_exists |-> sms_exists]
    /\ UNCHANGED <<stage, designation, user_devices, request_user>>

(***************************************************************************)
(* Between requests                                                        *)
(***************************************************************************)
\* who starts an attempt: nobody, or a user an earlier stage of the flow
\* identified
Attempts ==
    { [pending_user |-> None, request_user |-> Anonymous],
      [pending_user |-> "u1", request_user |-> Anonymous] }

\* The flow planner starts a new plan in the same HTTP session: the session
\* keys of the stage stay, the plan and its context are new.
NewAttempt ==
    /\ outcome # "none"
    /\ \E a \in Attempts :
          /\ context' = [NoMethod EXCEPT !.pending_user = a.pending_user]
          /\ request_user' = a.request_user
    /\ plan_inserted' = <<>>
    /\ request' = NoRequest
    /\ outcome' = "none"
    /\ rendered' = NotRendered
    /\ events' = 0
    /\ UNCHANGED <<stage, designation, user_devices, session>>

ConfigurationStageSets == {{}, {"s1"}, {"s1", "s2"}, {"s2", "s3"}}

\* An administrator binds other configuration stages to the stage; the next
\* request reads them.
Rebind ==
    /\ outcome = "none"
    /\ \E cs \in ConfigurationStageSets \ {stage.configuration_stages} :
          stage' = [stage EXCEPT !.configuration_stages = cs]
    /\ UNCHANGED <<designation, user_devices, request_user, context, session,
                   plan_inserted, request, outcome, rendered, events>>

(***************************************************************************)
(* Specifications                                                          *)
(***************************************************************************)
AllowLists == {{"webauthn"}, {"totp", "static", "sms"}, DeviceClasses}
Thresholds == {0 - 60, 0, 60}

StageConfigs(thresholds, actions, stage_sets) ==
    [device_classes : AllowLists,
     last_auth_threshold : thresholds,
     not_configured_action : actions,
     configuration_stages : stage_sets]

\* a fresh session and a fresh plan
InitRequest ==
    /\ session = EmptySession
    /\ plan_inserted = <<>>
    /\ request = NoRequest
    /\ outcome = "none"
    /\ rendered = NotRendered
    /\ events = 0

\* the session protocol: requests, attempts, and rebinding in one
\* session of an authentication flow
Init ==
    /\ stage \in [device_classes : {{"totp", "static", "sms"}, DeviceClasses},
                  last_auth_threshold : {60},
                  not_configured_action : {SKIP, CONFIGURE},
                  configuration_stages : ConfigurationStageSets]
    /\ designation = AUTHENTICATION
    /\ \E a \in Attempts :
          /\ context = [NoMethod EXCEPT !.pending_user = a.pending_user]
          /\ request_user = a.request_user
    /\ user_devices \in DeviceLists(SessionDeviceKinds, MaxSessionDevices)
    /\ InitRequest

Next == get \/ post \/ NewAttempt \/ Rebind

Spec == Init /\ [][Next]_vars

\* stage entry over every device list of at most MaxDevices devices of a known
\* user, and entry without a user
InitEntry ==
    /\ InitRequest
    /\ \/ /\ stage \in StageConfigs(Thresholds, {SKIP, DENY}, {{}})
          /\ designation = AUTHENTICATION
          /\ context = [NoMethod EXCEPT !.pending_user = "u1"]
          /\ request_user = Anonymous
          /\ user_devices \in DeviceLists(DeviceKinds, MaxDevices)
       \/ /\ stage \in StageConfigs(Thresholds, NotConfiguredActions, {{}})
          /\ designation \in Designations
          /\ context = NoMethod
          /\ request_user = Anonymous
          /\ user_devices = <<>>

NextEntry == get

SpecEntry == InitEntry /\ [][NextEntry]_vars

(***************************************************************************)
(* Properties                                                              *)
(***************************************************************************)
IsGet == request.method = "GET"
IsPost == request.method = "POST"

\* the device classes of the challenges held in the session
IssuedClasses ==
    { session.device_challenges[i].device_class :
        i \in 1..Len(session.device_challenges) }

\* the classes a factor field of a response can satisfy
FactorClasses(field) ==
    CASE field = "code" -> {"static", "totp", "sms"}
      [] field = "webauthn" -> {"webauthn"}
      [] field = "duo" -> {"duo"}

\* the classes of the user's devices that the allow-list admits
AdmittedClasses ==
    { c \in stage.device_classes :
        \E i \in 1..Len(user_devices) :
           device_class_of(user_devices[i]) = c }

\* C1: a response that fails validation ends in REJECTED with the challenge
\* rendered again; it never completes the stage and inserts no stage.
C1_InvalidResponseIsRejected ==
    (IsPost /\ request.verdict = "invalid")
        => (outcome = "rejected" /\ rendered.shown /\ plan_inserted = <<>>)

\* C2: a response with a factor field none of whose classes is among the
\* issued device challenges fails validation, whatever the verifier says.
C2_ClassGate ==
    \A field \in {"code", "webauthn", "duo"} :
        ( /\ IsPost
          /\ SESSION_DEVICE_CHALLENGES \in session.keys
          /\ field \in request.response.fields
          /\ FactorClasses(field) \cap IssuedClasses = {} )
            => request.verdict = "invalid"

\* a known user sends a code the verifier accepts while only a webauthn
\* challenge was issued, and the response is invalid
C2_Witness ==
    /\ IsPost
    /\ KnownUser(request.user)
    /\ request.response.fields = {"code"}
    /\ request.response.code = "good"
    /\ SESSION_DEVICE_CHALLENGES \in session.keys
    /\ IssuedClasses = {"webauthn"}
    /\ request.verdict = "invalid"

\* C3: on entry with a known user and a threshold > 0, any device of an allowed
\* class used within the threshold makes the stage skip, whatever the other
\* devices and their order.
C3_RecentDeviceSkips ==
    ( /\ IsGet
      /\ KnownUser(request.user)
      /\ stage.last_auth_threshold > 0
      /\ \E i \in 1..Len(user_devices) :
            /\ device_class_of(user_devices[i]) \in stage.device_classes
            /\ Now - get_device_last_usage(user_devices[i])
                  <= stage.last_auth_threshold )
        => (outcome = "stage_ok" /\ SESSION_DEVICE_CHALLENGES \notin session.keys)

\* C4: with a zero or negative threshold the enumeration never skips: it runs
\* to the end and issues a challenge for every admitted class.
C4_DisabledThresholdNeverSkips ==
    (IsGet /\ KnownUser(request.user) /\ stage.last_auth_threshold <= 0)
        => ( /\ SESSION_DEVICE_CHALLENGES \in session.keys
             /\ IssuedClasses = AdmittedClasses )

\* threshold zero and an admitted device last used at this very moment
C4_Witness ==
    /\ IsGet
    /\ KnownUser(request.user)
    /\ stage.last_auth_threshold = 0
    /\ \E i \in 1..Len(user_devices) :
          /\ device_class_of(user_devices[i]) \in stage.device_classes
          /\ get_device_last_usage(user_devices[i]) = Now
    /\ SESSION_DEVICE_CHALLENGES \in session.keys
    /\ session.device_challenges # <<>>

\* C5: the challenge set one entry issues holds at most one challenge per
\* device class, and exactly one challenge on the userless path.
C5_OneChallengePerClass ==
    (IsGet /\ SESSION_DEVICE_CHALLENGES \in session.keys)
        => ( /\ \A i, j \in 1..Len(session.device_challenges) :
                   i # j => session.device_challenges[i].device_class
                              # session.device_challenges[j].device_class
             /\ ~KnownUser(request.user)
                   => Len(session.device_challenges) = 1 )

\* two TOTP devices and one WebAuthn device give one totp and one webauthn entry
C5_Witness ==
    /\ IsGet
    /\ KnownUser(request.user)
    /\ Len(user_devices) = 3
    /\ Cardinality({ i \in 1..3 : user_devices[i].class_name = "TOTPDevice" }) = 2
    /\ Cardinality({ i \in 1..3 : user_devices[i].class_name = "WebAuthnDevice" }) = 1
    /\ SESSION_DEVICE_CHALLENGES \in session.keys
    /\ Len(session.device_challenges) = 2
    /\ IssuedClasses = {"totp", "webauthn"}

\* C6: entry without a known user in an authentication flow whose allow-list
\* holds webauthn stores and renders exactly one challenge, of class webauthn
\* with the sentinel uid, and awaits the response.
C6_UserlessIssuance ==
    ( /\ IsGet
      /\ ~KnownUser(request.user)
      /\ designation = AUTHENTICATION
      /\ "webauthn" \in stage.device_classes )
        => ( /\ SESSION_DEVICE_CHALLENGES \in session.keys
             /\ session.device_challenges
                   = << [device_class |-> "webauthn", device_uid |-> 0 - 1] >>
             /\ rendered.shown
             /\ rendered.device_challenges = session.device_challenges
             /\ outcome = "challenge" )

\* a userless entry that awaits the response to a rendered challenge
C6_Witness ==
    /\ IsGet
    /\ ~KnownUser(request.user)
    /\ designation = AUTHENTICATION
    /\ "webauthn" \in stage.device_classes
    /\ outcome = "challenge"
    /\ Len(rendered.device_challenges) = 1

C9_SelectedStageIssued ==
    SESSION_SELECTED_STAGE \in session.keys
        => ( /\ SESSION_STAGES \in session.keys
             /\ session.selected_stage.pk \in session.stages )

\* C10: entry of a known user without an admitted device, with action configure
\* and exactly one configuration stage, inserts that stage and no other and
\* completes the stage in the same request, rendering nothing.
C10_AutoInsert ==
    ( /\ IsGet
      /\ KnownUser(request.user)
      /\ AdmittedClasses = {}
      /\ stage.not_configured_action = CONFIGURE
      /\ Cardinality(stage.configuration_stages) = 1 )
        => ( /\ outcome = "stage_ok"
             /\ Len(plan_inserted) = 1
             /\ plan_inserted[1] \in stage.configuration_stages
             /\ ~rendered.shown )

\* the only configuration stage was inserted for a user whose one device is
\* of a class the stage does not allow
C10_Witness ==
    /\ IsGet
    /\ KnownUser(request.user)
    /\ user_devices # <<>>
    /\ AdmittedClasses = {}
    /\ stage.not_configured_action = CONFIGURE
    /\ stage.configuration_stages = {"s1"}
    /\ plan_inserted = <<"s1">>
    /\ outcome = "stage_ok"

\* C11: entry of a known user without an admitted device, with action configure
\* and no configuration stage bound, fails the stage, saves exactly one
\* configuration-error event and inserts no stage.
C11_Misconfiguration ==
    ( /\ IsGet
      /\ KnownUser(request.user)
      /\ AdmittedClasses = {}
      /\ stage.not_configured_action = CONFIGURE
      /\ stage.configuration_stages = {} )
        => ( /\ outcome = "stage_invalid"
             /\ events = 1
             /\ plan_inserted = <<>>
             /\ ~rendered.shown )

\* the stage failed with one event for a user whose one device is of a class
\* the stage does not allow
C11_Witness ==
    /\ IsGet
    /\ KnownUser(request.user)
    /\ user_devices # <<>>
    /\ AdmittedClasses = {}
    /\ stage.not_configured_action = CONFIGURE
    /\ stage.configuration_stages = {}
    /\ outcome = "stage_invalid"
    /\ events = 1

C13_FaultContainment ==
    (IsGet \/ IsPost)
        => outcome \in {"challenge", "rejected", "stage_ok", "stage_invalid"}

C15_EmptyResponse ==
    (IsPost /\ request.response.fields \cap {"code", "webauthn", "duo"} = {})
        => request.verdict # "valid"

\* a response that only selects an offered stage, so that every field
\* validator passes, is invalid
C15_Witness ==
    /\ IsPost
    /\ request.response.fields = {"selected_stage"}
    /\ SESSION_STAGES \in session.keys
    /\ request.response.selected_stage \in session.stages
    /\ request.verdict = "invalid"

\* C16: entry of a known user without an admitted device completes the stage
\* when the action is skip and fails it when the action is deny; either way
\* nothing is rendered and no stage is inserted.
C16_SkipAndDeny ==
    (IsGet /\ KnownUser(request.user) /\ AdmittedClasses = {})
        => ( /\ stage.not_configured_action = SKIP => outcome = "stage_ok"
             /\ stage.not_configured_action = DENY => outcome = "stage_invalid"
             /\ stage.not_configured_action \in {SKIP, DENY}
                   => (~rendered.shown /\ plan_inserted = <<>>) )

\* the stage is denied to a user whose devices are all of classes the stage
\* does not allow
C16_Witness ==
    /\ IsGet
    /\ KnownUser(request.user)
    /\ Len(user_devices) >= 2
    /\ AdmittedClasses = {}
    /\ stage.not_configured_action = DENY
    /\ outcome = "stage_invalid"
    /\ ~rendered.shown

\* the positions of the user's WebAuthn devices
WebAuthnDevices ==
    { i \in 1..Len(user_devices) : user_devices[i].class_name = "WebAuthnDevice" }

\* the positions of the webauthn challenges the session holds
WebAuthnChallenges ==
    { i \in 1..Len(session.device_challenges) :
        session.device_challenges[i].device_class = "webauthn" }

\* a known user enters with two or more allowed WebAuthn devices, none of them
\* used within the threshold, and the enumeration issues a challenge set
SeveralWebAuthnDevices ==
    /\ IsGet
    /\ KnownUser(request.user)
    /\ "webauthn" \in stage.device_classes
    /\ Cardinality(WebAuthnDevices) >= 2
    /\ \A i \in WebAuthnDevices :
          ~( /\ stage.last_auth_threshold > 0
             /\ Now - get_device_last_usage(user_devices[i])
                   <= stage.last_auth_threshold )
    /\ SESSION_DEVICE_CHALLENGES \in session.keys

\* C17 as stated: every allowed WebAuthn device of the user gets its own
\* challenge, so k devices give k webauthn entries with distinct device_uid.
C17_PerInstanceWebAuthn ==
    SeveralWebAuthnDevices
        => /\ Cardinality(WebAuthnChallenges) = Cardinality(WebAuthnDevices)
           /\ \A i \in WebAuthnDevices : \E j \in WebAuthnChallenges :
                 session.device_challenges[j].device_uid = user_devices[i].pk

\* C17 as amended: WebAuthn is deduplicated like every other class; k >= 2
\* devices give exactly one webauthn entry, for the first of them enumerated.
C17_OneWebAuthnChallenge ==
    SeveralWebAuthnDevices
        => /\ Cardinality(WebAuthnChallenges) = 1
           /\ \A j \in WebAuthnChallenges : \A i \in WebAuthnDevices :
                 session.device_challenges[j].device_uid <= user_devices[i].pk

\* three WebAuthn devices and a single webauthn challenge, for the first
C17_Witness ==
    /\ SeveralWebAuthnDevices
    /\ Cardinality(WebAuthnDevices) = 3
    /\ outcome = "challenge"
    /\ session.device_challenges = << [device_class |-> "webauthn", device_uid |-> 1] >>

\* the selected_challenge of the response equals an entry of the issued set
SelectedChallengeIssued ==
    /\ SESSION_DEVICE_CHALLENGES \in session.keys
    /\ \E i \in 1..Len(session.device_challenges) :
          session.device_challenges[i] = request.response.selected_challenge

\* C18: a response whose selected_challenge equals no issued challenge is not
\* valid; for class sms it is not valid either when the device record is not
\* found; a device is selected to receive the code only when the pair was
\* issued, is of class sms and its record was found.
C18_SelectedChallenge ==
    (IsPost /\ "selected_challenge" \in request.response.fields)
        => ( /\ ~SelectedChallengeIssued => request.verdict # "valid"
             /\ ( /\ request.response.selected_challenge.device_class = "sms"
                  /\ ~request.sms_exists ) => request.verdict # "valid"
             /\ request.selected_device # 0
                   => ( /\ SelectedChallengeIssued
                        /\ request.response.selected_challenge.device_class = "sms"
                        /\ request.sms_exists
                        /\ request.selected_device
                              = request.response.selected_challenge.device_uid ) )

\* the issued sms challenge is selected, its device is found and receives the
\* code, and the code sent with the selection makes the response valid
C18_Witness ==
    /\ IsPost
    /\ request.response.fields = {"selected_challenge", "code"}
    /\ request.response.selected_challenge.device_class = "sms"
    /\ SelectedChallengeIssued
    /\ request.sms_exists
    /\ request.selected_device = 1
    /\ request.verdict = "valid"

\* the positions of the user's devices whose class the allow-list admits
AdmittedDevices ==
    { i \in 1..Len(user_devices) :
        device_class_of(user_devices[i]) \in stage.device_classes }

\* C19: every issued device challenge has a class of the stage's allow-list;
\* on entry with a known user every issued challenge is that of a device of
\* an admitted class, a device outside the allow-list or of an unrecognised
\* type makes no threshold skip (with no admitted device within the
\* threshold a challenge set is stored), and no request ends in a fault.
C19_AllowList ==
    /\ SESSION_DEVICE_CHALLENGES \in session.keys
          => IssuedClasses \subseteq stage.device_classes
    /\ (IsGet /\ KnownUser(request.user))
          => /\ outcome # "fault"
             /\ \A j \in 1..Len(session.device_challenges) :
                   \E i \in AdmittedDevices :
                      /\ user_devices[i].pk
                            = session.device_challenges[j].device_uid
                      /\ device_class_of(user_devices[i])
                            = session.device_challenges[j].device_class
             /\ (\A i \in AdmittedDevices :
                    ~WithinThreshold(user_devices[i], stage.last_auth_threshold))
                   => SESSION_DEVICE_CHALLENGES \in session.keys

\* a known user with an HOTP device used this very second, a WebAuthn device
\* outside the allow-list and a static device: threshold 60, the one challenge
\* issued is the static one
C19_Witness ==
    /\ IsGet
    /\ KnownUser(request.user)
    /\ stage.last_auth_threshold = 60
    /\ stage.device_classes = {"totp", "static", "sms"}
    /\ Len(user_devices) = 3
    /\ device_class_of(user_devices[1]) = "hotp"
    /\ device_class_of(user_devices[2]) = "webauthn"
    /\ WithinThreshold(user_devices[2], stage.last_auth_threshold)
    /\ device_class_of(user_devices[3]) = "static"
    /\ outcome = "challenge"
    /\ session.device_challenges = << DeviceChallenge("static", 3) >>

\* C20: a response that fails validation leaves the session as it was:
\* device_challenges, stages and selected_stage have the same values after the
\* request as before it.
C20_FrameOnRejection ==
    [][(request'.method = "POST" /\ request'.verdict = "invalid")
          => session' = session]_vars

====
